---- MODULE Spec2Model ----
(***************************************************************************)
(* Curvature-matrix-product backpropagation (CMPBase) and Jacobian-only    *)
(* backpropagation (MatToJacMat) of backpack/extensions.                   *)
(*                                                                         *)
(* A tensor is a record [sid, shape]: a shape and the id of the storage    *)
(* that holds its entries, row-major, in a heap of storages.  Two tensors  *)
(* with the same sid are the same memory: an in-place add_ through one is  *)
(* seen through the other.  Tensor entries are integers.                   *)
(*                                                                         *)
(* Layers of a chain are numbered in the order the backward pass visits    *)
(* them: layer 1 is the output-most layer, whose CMP_out is the initial    *)
(* operator (the loss curvature); layer k+1 receives as backproped the     *)
(* closure built for layer k.  The input-most closure is the last built.   *)
(***************************************************************************)
EXTENDS Integers, Sequences, FiniteSets, TLC

\* ------------------------------------------------------------------ bounds
MaxLayers == 2
Batch == 1
Dim == 2
MaxK == 2
MaxList == 2

\* mat_dim of the decorator on CMP_in
MatDim == 3

\* ------------------------------------------------------------ input sets
CurvTypes == {"hessian", "ggn", "pch-abs", "pch-clip"}
\* how a Jacobian routine behaves: the identity returning its argument
\* object, diag(2,3,..) and an upper-bidiagonal matrix returning a new tensor
JKinds == {"id_alias", "diag", "bidiag"}
\* the initial CMP_out: the identity returning its argument, or diag(2,3,..)
C0Kinds == {"id_alias", "diag"}
MatKinds == {"ones", "ramp"}
ModuleTypes == {"BatchNorm", "Softmax"}
None == "None"

\* the derivative objects a layer can carry
DerivSet ==
    { [J |-> j, hessZero |-> z, hessDiag |-> d] :
        j \in JKinds, z \in BOOLEAN, d \in BOOLEAN }

\* ---------------------------------------------------------------- tensors
RECURSIVE Prod(_)
Prod(s) == IF s = <<>> THEN 1 ELSE Head(s) * Prod(Tail(s))

\* entry (b, i, c) of a tensor of shape <<B, D, K>> is at the row-major
\* position p = ((b - 1) * D + (i - 1)) * K + c
BOf(shape, p) == ((p - 1) \div (shape[2] * shape[3])) + 1
IOf(shape, p) == (((p - 1) \div shape[3]) % shape[2]) + 1
COf(shape, p) == ((p - 1) % shape[3]) + 1

\* the caller's matrices
MatData(kind, shape) ==
    [p \in 1..Prod(shape) |-> IF kind = "ones" THEN 1 ELSE p]

\* J . mat on the entries of a rank-3 tensor, for the Jacobians
\*   id_alias: the identity
\*   diag:     diag(2, 3, ..), J[i][i] = i + 1
\*   bidiag:   ones on the diagonal and right above it (not symmetric)
JacTimes(kind, shape, data) ==
    [p \in 1..Prod(shape) |->
        CASE kind = "id_alias" -> data[p]
          [] kind = "diag" -> (IOf(shape, p) + 1) * data[p]
          [] kind = "bidiag" ->
                data[p] + (IF IOf(shape, p) < shape[2]
                           THEN data[p + shape[3]] ELSE 0)]

\* J^T . mat on the entries of a rank-3 tensor
JacTTimes(kind, shape, data) ==
    [p \in 1..Prod(shape) |->
        CASE kind = "id_alias" -> data[p]
          [] kind = "diag" -> (IOf(shape, p) + 1) * data[p]
          [] kind = "bidiag" ->
                data[p] + (IF IOf(shape, p) > 1
                           THEN data[p - shape[3]] ELSE 0)]

\* the one element of a singleton set
The(S) == CHOOSE x \in S : TRUE

\* a call state: the heap of storages and the log of calls made so far
Alloc(st, shape, data, ev) ==
    [h |-> Append(st.h, data),
     log |-> Append(st.log, [f |-> ev[1], k |-> ev[2], sid |-> Len(st.h) + 1]),
     ref |-> [sid |-> Len(st.h) + 1, shape |-> shape]]

Same(st, ref, ev) ==
    [h |-> st.h,
     log |-> Append(st.log, [f |-> ev[1], k |-> ev[2], sid |-> ref.sid]),
     ref |-> ref]

\* derivatives.jac_mat_prod(module, g_inp, g_out, mat)
jac_mat_prod(k, kind, st, ref) ==
    IF kind = "id_alias"
    THEN Same(st, ref, <<"jac_mat_prod", k>>)
    ELSE Alloc(st, ref.shape, JacTimes(kind, ref.shape, st.h[ref.sid]),
               <<"jac_mat_prod", k>>)

\* derivatives.jac_t_mat_prod(module, g_inp, g_out, mat)
jac_t_mat_prod(k, kind, st, ref) ==
    IF kind = "id_alias"
    THEN Same(st, ref, <<"jac_t_mat_prod", k>>)
    ELSE Alloc(st, ref.shape, JacTTimes(kind, ref.shape, st.h[ref.sid]),
               <<"jac_t_mat_prod", k>>)

\* the operator handed to the output-most layer as backproped
InitialCMP(kind, st, ref) ==
    IF kind = "id_alias"
    THEN Same(st, ref, <<"CMP_out", 0>>)
    ELSE Alloc(st, ref.shape, JacTimes(kind, ref.shape, st.h[ref.sid]),
               <<"CMP_out", 0>>)

\* derivatives.hessian_diagonal(module, g_inp, g_out): shape <<Batch, Dim>>
hessian_diagonal(d) ==
    [p \in 1..(Batch * Dim) |->
        LET b == ((p - 1) \div Dim) + 1
            i == ((p - 1) % Dim) + 1
        IN  IF i % 2 = 1 THEN b ELSE -b]

\* ------------------------------------------------------- curvature policy
Curvature_require_residual(c) == c # "ggn"

Curvature_modify_residual(R, c) ==
    [p \in DOMAIN R |->
        CASE c = "hessian"  -> R[p]
          [] c = "ggn"      -> 0
          [] c = "pch-abs"  -> IF R[p] < 0 THEN -R[p] ELSE R[p]
          [] c = "pch-clip" -> IF R[p] < 0 THEN 0 ELSE R[p]]

NotImplementedMsg == "Residual terms are only supported for elementwise functions"

\* ------------------------------------------------------------- variables
VARIABLES
    curv,        \* ext.get_curv_type()
    cmp0,        \* the operator handed to the output-most layer
    closures,    \* the closures built so far, output-most first
    status,      \* "running", or "failed" once backpropagate has raised
    err,         \* the exception raised, or None
    lastOp,      \* "init", "backpropagate", "call", "call_again", "jac"
    lastDeriv,   \* the derivatives of the layer last handed to backpropagate
    lastModule,  \* the type of the module last handed to backpropagate
    mat,         \* the caller's tensor object [shape, data], or None
    matBefore,   \* its entries when CMP_in was last called on it
    result,      \* what the last call of CMP_in returned
    prevResult,  \* what the call before it on the same tensor object returned
    callLog,     \* the calls made during the last call of CMP_in
    jacDeriv,    \* MatToJacMat: self.derivatives (a Jacobian kind or None)
    jacIn,       \* MatToJacMat: backproped
    jacOut,      \* MatToJacMat: what backpropagate returned or raised
    jacVisited   \* MatToJacMat: the layers the backward pass has visited

vars ==
    <<curv, cmp0, closures, status, err, lastOp, lastDeriv, lastModule, mat,
      matBefore, result, prevResult, callLog, jacDeriv, jacIn, jacOut,
      jacVisited>>

cmpVars ==
    <<curv, cmp0, closures, status, err, lastOp, lastDeriv, lastModule, mat,
      matBefore, result, prevResult, callLog>>

jacVars == <<jacDeriv, jacIn, jacOut, jacVisited>>

\* ------------------------------------------------- CMPBase: construction
\* _require_residual forgetting that the Hessian vanishes
require_residual_ignoring_zero(d, c) == Curvature_require_residual(c)

\* _require_residual forgetting the curvature policy
require_residual_ignoring_policy(d, c) == ~d.hessZero

\* CMPBase._require_residual
require_residual(d, c) ==
    LET vanishes == d.hessZero
        neglected == ~Curvature_require_residual(c)
    IN  ~(vanishes \/ neglected)

\* CMPBase.__make_diagonal_R_mat_prod: R_mod, captured by R_mat_prod
make_diagonal_R_mat_prod(d, c) ==
    LET R == hessian_diagonal(d)
    IN  Curvature_modify_residual(R, c)

\* _make_R_mat_prod falling back to a zero residual instead of raising
make_R_mat_prod_silent(d, c, module) ==
    IF ~d.hessDiag
    THEN [raised |-> FALSE,
          R_mod |-> [p \in 1..(Batch * Dim) |-> 0],
          calls |-> <<"hessian_is_diagonal">>]
    ELSE [raised |-> FALSE,
          R_mod |-> make_diagonal_R_mat_prod(d, c),
          calls |-> <<"hessian_is_diagonal", "hessian_diagonal",
                      "modify_residual">>]

\* _make_R_mat_prod naming the module's type in the exception
make_R_mat_prod_naming_module(d, c, module) ==
    IF ~d.hessDiag
    THEN [raised |-> TRUE,
          err |-> [type |-> "NotImplementedError",
                   args |-> <<NotImplementedMsg, module>>],
          calls |-> <<"hessian_is_diagonal">>]
    ELSE [raised |-> FALSE,
          R_mod |-> make_diagonal_R_mat_prod(d, c),
          calls |-> <<"hessian_is_diagonal", "hessian_diagonal",
                      "modify_residual">>]

\* CMPBase._make_R_mat_prod
make_R_mat_prod(d, c, module) ==
    IF ~d.hessDiag
    THEN [raised |-> TRUE,
          err |-> [type |-> "NotImplementedError",
                   args |-> <<NotImplementedMsg>>],
          calls |-> <<"hessian_is_diagonal">>]
    ELSE [raised |-> FALSE,
          R_mod |-> make_diagonal_R_mat_prod(d, c),
          calls |-> <<"hessian_is_diagonal", "hessian_diagonal",
                      "modify_residual">>]

\* CMPBase.backpropagate: the closure CMP_in, or the exception raised
backpropagate(d, c, module) ==
    LET R_required == require_residual(d, c)
        first == <<"hessian_is_zero", "require_residual">>
    IN  IF R_required
        THEN LET rm == make_R_mat_prod(d, c, module)
             IN  IF rm.raised
                 THEN [raised |-> TRUE, err |-> rm.err]
                 ELSE [raised |-> FALSE,
                       closure |-> [deriv |-> d, R_required |-> TRUE,
                                    R_mod |-> rm.R_mod,
                                    calls |-> first \o rm.calls]]
        ELSE [raised |-> FALSE,
              closure |-> [deriv |-> d, R_required |-> FALSE,
                           R_mod |-> <<>>, calls |-> first]]

\* ---------------------------------------------------- CMPBase: the closures
\* storage 1 is the caller's mat, storage 1 + k the R_mod captured by layer k
RmodSid(k) == 1 + k

\* hmp_unsqueeze_if_missing_dim(mat_dim): a view with a trailing dimension
hmp_unsqueeze_if_missing_dim(mat_dim, ref) ==
    IF Len(ref.shape) = mat_dim - 1
    THEN [sid |-> ref.sid, shape |-> ref.shape \o <<1>>]
    ELSE ref

\* R_mat_prod: einsum("bi,bic->bic", (R_mod, mat))
R_mat_prod(k, st, ref) ==
    Alloc(st, ref.shape,
          [p \in 1..Prod(ref.shape) |->
              st.h[RmodSid(k)][(BOf(ref.shape, p) - 1) * ref.shape[2]
                                 + IOf(ref.shape, p)]
                * st.h[ref.sid][p]],
          <<"R_mat_prod", k>>)

\* out.add_(x): in place, into the storage of out; st is the state R_mat_prod
\* left, whose ref is x
add_(k, st, out) ==
    [h |-> [st.h EXCEPT ![out.sid] =
                [p \in DOMAIN st.h[out.sid] |->
                    st.h[out.sid][p] + st.h[st.ref.sid][p]]],
     log |-> Append(st.log, [f |-> "add_", k |-> k, sid |-> out.sid]),
     ref |-> out]

RECURSIVE CMP_in(_, _, _)

\* CJmat = CMP_out(Jmat)
GGN_after_J(k, Jmat) ==
    IF k = 1
    THEN InitialCMP(cmp0, Jmat, Jmat.ref)
    ELSE CMP_in(k - 1, Jmat, Jmat.ref)

\* JTCJmat = jac_t_mat_prod(CJmat)
GGN_after_C(k, CJmat) ==
    jac_t_mat_prod(k, closures[k].deriv.J, CJmat, CJmat.ref)

\* GGN_mat_prod with the two Jacobian routines exchanged
GGN_mat_prod_exchanged(k, st, ref) ==
    The({ jac_mat_prod(k, closures[k].deriv.J, CJmat, CJmat.ref) :
            CJmat \in { GGN_after_J(k, Jmat) :
                Jmat \in { jac_t_mat_prod(k, closures[k].deriv.J, st, ref) } } })

\* GGN_mat_prod, built by CMPBase._make_GGN_mat_prod: each line of it is
\* evaluated once, in order
GGN_mat_prod(k, st, ref) ==
    The({ GGN_after_C(k, CJmat) :
            CJmat \in { GGN_after_J(k, Jmat) :
                Jmat \in { jac_mat_prod(k, closures[k].deriv.J, st, ref) } } })

\* if R_required: out.add_(R_mat_prod(mat)); return out
CMP_in_residual(k, out, ref) ==
    IF closures[k].R_required
    THEN The({ add_(k, r, out.ref) : r \in { R_mat_prod(k, out, ref) } })
    ELSE out

\* the body of CMP_in
CMP_in_body(k, st, ref) ==
    The({ CMP_in_residual(k, out, ref) : out \in { GGN_mat_prod(k, st, ref) } })

\* CMP_in giving a rank-2 tensor back for a rank-2 tensor
CMP_in_squeezing(k, st, ref) ==
    The({ IF Len(ref.shape) = MatDim - 1
          THEN [r EXCEPT !.ref.shape = ref.shape] ELSE r :
            r \in { CMP_in_body(k, st,
                        hmp_unsqueeze_if_missing_dim(MatDim, ref)) } })

\* CMP_in as decorated with hmp_unsqueeze_if_missing_dim(mat_dim=3)
CMP_in(k, st, ref) ==
    CMP_in_body(k, st, hmp_unsqueeze_if_missing_dim(MatDim, ref))

\* the heap a call starts from, and the call of the input-most closure
Heap0(data) == <<data>> \o [k \in 1..Len(closures) |-> closures[k].R_mod]

CallTop(m) ==
    CMP_in(Len(closures), [h |-> Heap0(m.data), log |-> <<>>],
           [sid |-> 1, shape |-> m.shape])

\* ---------------------------------------------------------------- actions
InitCMP ==
    /\ curv \in CurvTypes
    /\ cmp0 \in C0Kinds
    /\ closures = <<>>
    /\ status = "running"
    /\ err = None
    /\ lastOp = "init"
    /\ lastDeriv = None
    /\ lastModule = None
    /\ mat = None
    /\ matBefore = None
    /\ result = None
    /\ prevResult = None
    /\ callLog = <<>>

InitJac ==
    /\ jacDeriv = None
    /\ jacIn = None
    /\ jacOut = None
    /\ jacVisited = 0

Init == InitCMP /\ InitJac

\* the backward pass hands the next layer to CMPBase.backpropagate
Backpropagate ==
    /\ status = "running"
    /\ lastOp \in {"init", "backpropagate"}
    /\ Len(closures) < MaxLayers
    /\ \E d \in DerivSet, module \in ModuleTypes :
          \E r \in {backpropagate(d, curv, module)} :
              /\ lastOp' = "backpropagate"
              /\ lastDeriv' = d
              /\ lastModule' = module
              /\ IF r.raised
                 THEN /\ status' = "failed"
                      /\ err' = r.err
                      /\ closures' = closures
                 ELSE /\ status' = "running"
                      /\ err' = None
                      /\ closures' = Append(closures, r.closure)
    /\ UNCHANGED <<curv, cmp0, mat, matBefore, result, prevResult, callLog>>
    /\ UNCHANGED jacVars

\* what one call of the input-most closure on the tensor m does to the state
CallEffect(m, op, prev) ==
    \E r \in {CallTop(m)} :
        /\ lastOp' = op
        /\ mat' = [shape |-> m.shape, data |-> r.h[1]]
        /\ matBefore' = m.data
        /\ result' = [shape |-> r.ref.shape, data |-> r.h[r.ref.sid],
                      sid |-> r.ref.sid]
        /\ prevResult' = prev
        /\ callLog' = r.log
        /\ closures' = [k \in 1..Len(closures) |->
                          [closures[k] EXCEPT !.R_mod = r.h[RmodSid(k)]]]
        /\ UNCHANGED <<curv, cmp0, status, err, lastDeriv, lastModule>>
        /\ UNCHANGED jacVars

MatShapes ==
    { <<Batch, Dim>> } \cup { <<Batch, Dim, K>> : K \in {1, MaxK} }

\* the caller calls the closure the backward pass has just returned, on a
\* new tensor (a call changes no state a later call on a new tensor reads)
Call ==
    /\ status = "running"
    /\ lastOp = "backpropagate"
    /\ Len(closures) >= 1
    /\ \E kind \in MatKinds, shape \in MatShapes :
          CallEffect([shape |-> shape, data |-> MatData(kind, shape)], "call",
                     None)

\* the caller calls it once more on the same tensor object
CallAgain ==
    /\ status = "running"
    /\ lastOp = "call"
    /\ CallEffect(mat, "call_again", result)

Next == Backpropagate \/ Call \/ CallAgain

Spec == Init /\ [][Next]_vars

\* ------------------------------------------------------------ MatToJacMat
\* the names bound where MatToJacMat.backpropagate evaluates the arguments of
\* jac_t_mat_prod: its parameters, the comprehension variable, the globals of
\* newmatbackprop.py and the builtins it uses
BackpropagateParams ==
    {"self", "ext", "module", "grad_inp", "grad_out", "backproped"}
ModuleGlobals == {"ModuleExtension", "MatToJacMat"}
Builtins == {"isinstance", "list"}

JacTArgsInList == <<"module", "inp", "out", "grad_inp", "grad_out", "M">>
JacTArgsSingle ==
    <<"module", "inp", "out", "grad_inp", "grad_out", "backproped">>

\* the first of the names that is not bound, or None: Python evaluates the
\* arguments left to right and raises NameError at the first unbound name
RECURSIVE FirstUnbound(_, _)
FirstUnbound(names, scope) ==
    IF names = <<>> THEN None
    ELSE IF Head(names) \notin scope THEN Head(names)
    ELSE FirstUnbound(Tail(names), scope)

NameError(name) == [type |-> "NameError", name |-> name]

\* the matrices handed to MatToJacMat
JacMatKinds == MatKinds \cup {"neg"}
JacMatData(kind, shape) ==
    [p \in 1..Prod(shape) |->
        CASE kind = "ones" -> 1 [] kind = "ramp" -> p [] kind = "neg" -> -p]
JacMats ==
    { [shape |-> <<Batch, Dim, K>>, data |-> JacMatData(kind, <<Batch, Dim, K>>)] :
        kind \in JacMatKinds, K \in {1, MaxK} }

RECURSIVE SeqsUpTo(_, _)
SeqsUpTo(S, n) ==
    IF n = 0 THEN { <<>> }
    ELSE LET shorter == SeqsUpTo(S, n - 1)
         IN  shorter \cup { Append(q, x) : q \in { r \in shorter : Len(r) = n - 1 }, x \in S }

\* backproped: a single matrix, or a list object holding matrices
JacInputs ==
    { [isList |-> FALSE, obj |-> 1, items |-> <<m>>] : m \in JacMats }
    \cup { [isList |-> TRUE, obj |-> 1, items |-> q] : q \in SeqsUpTo(JacMats, MaxList) }

JacT(derivatives, M) ==
    [shape |-> M.shape, data |-> JacTTimes(derivatives, M.shape, M.data)]

\* MatToJacMat.backpropagate without the test for derivatives being None
MatToJacMat_backpropagate_unguarded(derivatives, backproped) ==
    IF backproped.isList
    THEN LET unbound == FirstUnbound(JacTArgsInList,
                 BackpropagateParams \cup {"M"} \cup ModuleGlobals \cup Builtins)
         IN  IF backproped.items # <<>> /\ unbound # None
             THEN [raised |-> TRUE, err |-> NameError(unbound), n_jac_t |-> 0]
             ELSE [raised |-> FALSE, isList |-> TRUE, obj |-> backproped.obj + 1,
                   items |-> [k \in 1..Len(backproped.items) |->
                                JacT(derivatives, backproped.items[k])],
                   n_jac_t |-> Len(backproped.items)]
    ELSE LET unbound == FirstUnbound(JacTArgsSingle,
                 BackpropagateParams \cup ModuleGlobals \cup Builtins)
         IN  IF unbound # None
             THEN [raised |-> TRUE, err |-> NameError(unbound), n_jac_t |-> 0]
             ELSE [raised |-> FALSE, isList |-> FALSE, obj |-> backproped.obj + 1,
                   items |-> <<JacT(derivatives, backproped.items[1])>>,
                   n_jac_t |-> 1]

\* MatToJacMat.backpropagate: the value returned (obj: which list object it
\* is; n_jac_t: how often jac_t_mat_prod was invoked) or the exception raised
MatToJacMat_backpropagate(derivatives, backproped) ==
    IF derivatives = None
    THEN [raised |-> FALSE, isList |-> backproped.isList,
          obj |-> backproped.obj, items |-> backproped.items, n_jac_t |-> 0]
    ELSE IF backproped.isList
    THEN LET unbound == FirstUnbound(JacTArgsInList,
                 BackpropagateParams \cup {"M"} \cup ModuleGlobals \cup Builtins)
         IN  IF backproped.items # <<>> /\ unbound # None
             THEN [raised |-> TRUE, err |-> NameError(unbound), n_jac_t |-> 0]
             ELSE [raised |-> FALSE, isList |-> TRUE, obj |-> backproped.obj + 1,
                   items |-> [k \in 1..Len(backproped.items) |->
                                JacT(derivatives, backproped.items[k])],
                   n_jac_t |-> Len(backproped.items)]
    ELSE LET unbound == FirstUnbound(JacTArgsSingle,
                 BackpropagateParams \cup ModuleGlobals \cup Builtins)
         IN  IF unbound # None
             THEN [raised |-> TRUE, err |-> NameError(unbound), n_jac_t |-> 0]
             ELSE [raised |-> FALSE, isList |-> FALSE, obj |-> backproped.obj + 1,
                   items |-> <<JacT(derivatives, backproped.items[1])>>,
                   n_jac_t |-> 1]

InitJacPass ==
    /\ InitCMP
    /\ curv = "ggn"
    /\ cmp0 = "id_alias"
    /\ jacDeriv = None
    /\ jacIn = None
    /\ jacVisited = 0
    /\ \E backproped \in JacInputs :
          jacOut = [raised |-> FALSE, isList |-> backproped.isList,
                    obj |-> backproped.obj, items |-> backproped.items,
                    n_jac_t |-> 0]

\* the backward pass hands what the last layer returned to the
\* MatToJacMat.backpropagate of the next layer; an exception ends the pass
JacBackpropagate ==
    /\ ~jacOut.raised
    /\ jacVisited < MaxLayers
    /\ \E derivatives \in JKinds \cup {None} :
          /\ jacDeriv' = derivatives
          /\ jacIn' = [isList |-> jacOut.isList, obj |-> jacOut.obj,
                       items |-> jacOut.items]
          /\ jacOut' = MatToJacMat_backpropagate(derivatives, jacIn')
    /\ jacVisited' = jacVisited + 1
    /\ UNCHANGED cmpVars

NextJac == JacBackpropagate

SpecJac == InitJacPass /\ [][NextJac]_vars

\* ------------------------------------------------- the claims: helpers
Called == lastOp \in {"call", "call_again"}
Top == Len(closures)
TopDeriv == closures[Top].deriv

\* the entries GGN_mat_prod of the input-most closure returns for the tensor
\* the last call was made on
GGNTop ==
    The({ g.h[g.ref.sid] :
            g \in { GGN_mat_prod(Top, [h |-> Heap0(matBefore), log |-> <<>>],
                        hmp_unsqueeze_if_missing_dim(MatDim,
                            [sid |-> 1, shape |-> mat.shape])) } })

\* the entries CMP_in returns for the last tensor given a trailing dimension
PromotedTop ==
    The({ r.h[r.ref.sid] :
            r \in { CallTop([shape |-> mat.shape \o <<1>>, data |-> matBefore]) } })

\* the shape the last tensor has as a rank-3 tensor
Shape3 == IF Len(mat.shape) = 2 THEN mat.shape \o <<1>> ELSE mat.shape

ConsultsHessianDiagonal(k) ==
    \E i \in DOMAIN closures[k].calls :
        closures[k].calls[i] \in {"hessian_is_diagonal", "hessian_diagonal"}

\* C1: for a layer whose Hessian is zero, whatever the curvature type and the
\* diagonality flag, backpropagate returns a closure without error and without
\* consulting hessian_diagonal, and CMP_in(mat) is exactly
\* jac_t_mat_prod(CMP_out(jac_mat_prod(mat))); J = diag(2,3), CMP_out the
\* identity and mat = ones give (4, 9).
C1_ZeroHessianIsGGN ==
    /\ (lastOp = "backpropagate" /\ lastDeriv.hessZero) => status = "running"
    /\ \A k \in 1..Len(closures) :
          closures[k].deriv.hessZero =>
              ~closures[k].R_required /\ ~ConsultsHessianDiagonal(k)
    /\ (Called /\ TopDeriv.hessZero) => result.data = GGNTop
    /\ (Called /\ Top = 1 /\ TopDeriv.hessZero /\ TopDeriv.J = "diag"
          /\ cmp0 = "id_alias" /\ Shape3[3] = 1
          /\ \A p \in DOMAIN matBefore : matBefore[p] = 1)
        => \A p \in DOMAIN result.data :
              result.data[p] = (IOf(Shape3, p) + 1) * (IOf(Shape3, p) + 1)

C1_Witness ==
    /\ Called /\ Top = 1 /\ curv = "hessian" /\ cmp0 = "id_alias"
    /\ TopDeriv = [J |-> "diag", hessZero |-> TRUE, hessDiag |-> FALSE]
    /\ mat.shape = <<Batch, Dim, 1>>
    /\ \A p \in DOMAIN matBefore : matBefore[p] = 1
    /\ result.data[1] = 4 /\ result.data[2] = 9

\* C2: for a layer with a diagonal non-zero Hessian and a curvature type that
\* requires the residual, CMP_in(mat)[b,i,c] - GGN_mat_prod(mat)[b,i,c] =
\* R_mod[b,i] * mat[b,i,c] with R_mod = modify_residual(hessian_diagonal).
C2_ResidualIsScaledMat ==
    (Called /\ ~TopDeriv.hessZero /\ TopDeriv.hessDiag
        /\ Curvature_require_residual(curv))
    => \A p \in DOMAIN result.data :
          result.data[p] - GGNTop[p]
            = Curvature_modify_residual(hessian_diagonal(TopDeriv), curv)
                  [(BOf(Shape3, p) - 1) * Dim + IOf(Shape3, p)]
              * matBefore[p]

\* C3: for a curvature type that does not require the residual, backpropagate
\* never fails and never consults hessian_is_diagonal or hessian_diagonal, and
\* CMP_in(mat) is exactly GGN_mat_prod(mat), whatever the layer's Hessian.
C3_NeglectedResidualIsGGN ==
    ~Curvature_require_residual(curv) =>
        /\ status = "running"
        /\ \A k \in 1..Len(closures) :
              ~closures[k].R_required /\ ~ConsultsHessianDiagonal(k)
        /\ Called => result.data = GGNTop

C3_Witness ==
    /\ Called /\ curv = "ggn" /\ Top = 2
    /\ ~TopDeriv.hessZero /\ ~TopDeriv.hessDiag
    /\ ~closures[1].deriv.hessZero /\ closures[1].deriv.hessDiag

\* the configuration CMPBase does not support
Unsupported(d) ==
    ~d.hessZero /\ Curvature_require_residual(curv) /\ ~d.hessDiag

\* C4: when the residual is required and the layer's Hessian is not diagonal,
\* backpropagate raises NotImplementedError and returns no closure, and after
\* the failure the backward pass processes no further layer.
C4_UnsupportedFailsAtConstruction ==
    [][ /\ (lastOp' = "backpropagate" /\ closures' = closures)
            => (Unsupported(lastDeriv') /\ status' = "failed")
        /\ (lastOp' = "backpropagate" /\ Unsupported(lastDeriv'))
            => /\ status' = "failed"
               /\ err'.type = "NotImplementedError"
               /\ closures' = closures
        /\ status = "failed" => UNCHANGED vars ]_vars

C4_Witness ==
    /\ status = "failed" /\ Len(closures) = 1 /\ Unsupported(lastDeriv)
    /\ closures[1].R_required

\* C5 as stated: the NotImplementedError carries the type of the offending
\* layer.
C5_ErrorCarriesLayerType ==
    status = "failed" => \E i \in DOMAIN err.args : err.args[i] = lastModule

\* C5 as amended: the NotImplementedError carries one fixed message and
\* nothing of the layer, so it is the same for layers of every type.
C5_ErrorIsFixedMessage ==
    status = "failed" =>
        /\ err = [type |-> "NotImplementedError", args |-> <<NotImplementedMsg>>]
        /\ \A i \in DOMAIN err.args : err.args[i] \notin ModuleTypes

C5_Witness ==
    status = "failed" /\ lastModule = "Softmax" /\ Unsupported(lastDeriv)

\* C8: CMP_in accepts a tensor of rank 2 or 3; the result always has rank 3
\* and shape (batch, dim, k), and for a rank-2 tensor it is what CMP_in
\* returns for the same tensor with a trailing dimension of 1.
C8_RankPromotion ==
    Called =>
        /\ Len(result.shape) = 3
        /\ result.shape = Shape3
        /\ Len(mat.shape) = 2 => result.data = PromotedTop

C8_Witness ==
    /\ Called /\ Len(mat.shape) = 2 /\ result.shape = <<Batch, Dim, 1>>
    /\ closures[Top].R_required /\ Top = 2

\* C9: a call of CMP_in leaves the caller's mat and every captured R_mod as
\* they were, also when the Jacobian routines and CMP_out return their
\* argument, and a second call on the same mat returns the same entries.
C9_CallMutatesNothing ==
    Called =>
        /\ mat.data = matBefore
        /\ \A k \in 1..Len(closures) :
              closures[k].R_required =>
                  closures[k].R_mod
                    = make_diagonal_R_mat_prod(closures[k].deriv, curv)
        /\ lastOp = "call_again" => result.data = prevResult.data

\* the calls one call of the closure of layer k makes, from layer k down to
\* the initial CMP_out and back
RECURSIVE ExpectedCalls(_)
ExpectedCalls(k) ==
    IF k = 0 THEN << <<"CMP_out", 0>> >>
    ELSE << <<"jac_mat_prod", k>> >> \o ExpectedCalls(k - 1)
         \o << <<"jac_t_mat_prod", k>> >>
         \o (IF closures[k].R_required
             THEN << <<"R_mat_prod", k>>, <<"add_", k>> >> ELSE << >>)

Occurrences(q, x) == Cardinality({ i \in DOMAIN q : q[i] = x })

\* C10: one call of the input-most closure of a chain invokes jac_mat_prod of
\* every layer once from the input-most to the output-most layer, then the
\* initial CMP_out once, then jac_t_mat_prod of every layer once in the
\* opposite order, adding each required residual to the tensor that layer's
\* own jac_t_mat_prod returned; hessian_diagonal and modify_residual are
\* invoked at construction only, at most once per layer.
C10_CallOrder ==
    /\ \A k \in 1..Len(closures) :
          /\ Occurrences(closures[k].calls, "hessian_diagonal")
                = (IF closures[k].R_required THEN 1 ELSE 0)
          /\ Occurrences(closures[k].calls, "modify_residual")
                = (IF closures[k].R_required THEN 1 ELSE 0)
    /\ Called =>
        /\ [i \in DOMAIN callLog |-> <<callLog[i].f, callLog[i].k>>]
              = ExpectedCalls(Top)
        /\ \A i \in DOMAIN callLog :
              callLog[i].f = "add_" =>
                  /\ callLog[i - 2].f = "jac_t_mat_prod"
                  /\ callLog[i - 2].k = callLog[i].k
                  /\ callLog[i - 2].sid = callLog[i].sid

C10_Witness ==
    /\ Called /\ Top = 2
    /\ closures[1].R_required /\ closures[2].R_required
    /\ closures[1].deriv.J = "bidiag" /\ closures[2].deriv.J = "diag"

\* C6: with a derivative routine, MatToJacMat.backpropagate returns for a
\* list of n matrices a new list of n matrices, the k-th being jac_t_mat_prod
\* of the k-th, and for a single matrix jac_t_mat_prod of it.
C6_JacobianOfEveryMatrix ==
    (jacVisited >= 1 /\ jacDeriv # None) =>
        /\ ~jacOut.raised
        /\ jacOut.isList = jacIn.isList
        /\ Len(jacOut.items) = Len(jacIn.items)
        /\ \A k \in DOMAIN jacIn.items :
              jacOut.items[k] = JacT(jacDeriv, jacIn.items[k])
        /\ jacOut.n_jac_t = Len(jacIn.items)
        /\ jacIn.isList => jacOut.obj # jacIn.obj

\* C7: without a derivative routine, MatToJacMat.backpropagate returns
\* backproped itself, a matrix or a list, and invokes no jac_t_mat_prod.
C7_NoDerivativesIsIdentity ==
    (jacVisited >= 1 /\ jacDeriv = None) =>
        /\ ~jacOut.raised
        /\ jacOut.isList = jacIn.isList
        /\ jacOut.obj = jacIn.obj
        /\ jacOut.items = jacIn.items
        /\ jacOut.n_jac_t = 0

C7_Witness ==
    /\ jacVisited = 2 /\ jacDeriv = None /\ ~jacOut.raised
    /\ jacIn.isList /\ Len(jacIn.items) = 2 /\ jacOut.items = jacIn.items

====
